---------------------------- MODULE Spec2Model ----------------------------
(***************************************************************************)
(* A model of the CLIP training repository: the quality-weighted caption   *)
(* sampler and the train/validation split (utils/dataset.py), the          *)
(* similarity head and inference of both CLIP implementations              *)
(* (src/clip.py, src/model/clip.py), the encoder pair's construction, and  *)
(* the staged training plan (config.py).                                   *)
(*                                                                         *)
(* The module holds its specifications over one set of variables; the      *)
(* variables a specification does not use stay at Idle.                    *)
(*   SpecSampler     TextAndImageFromCSV.__getitem__                       *)
(*   SpecSplit       create_datasets_from_csv                              *)
(*   SpecJson        create_datasets_from_json                             *)
(*   SpecSimilarity  CLIP.__init__/forward/inference, VisionPartCLIP       *)
(*   Spec            the stage plan of Config.TRAINING_STAGES              *)
(***************************************************************************)
EXTENDS Integers, Sequences, FiniteSets

VARIABLES
    \* utils/dataset.py, TextAndImageFromCSV
    csv,                \* self.csv: a sequence of Caption Records
    max_size_seq_len,   \* self.max_size_seq_len
    sample,             \* what the last __getitem__ call did
    \* utils/dataset.py, create_datasets_from_csv
    df,                 \* the caption rows handed in (one row per caption)
    datasets,           \* the returned {'train', 'valid'} frames
    \* utils/dataset.py, create_datasets_from_json
    jsons,              \* the parsed content of the json files handed in
    image_files,        \* the paths for which os.path.exists is true
    \* src/clip.py and src/model/clip.py
    net,                \* the CLIP built by CLIP.__init__
    image,              \* the image batch handed to forward / inference
    text,               \* the text batch handed to forward / inference
    out,                \* what the last forward / inference call returned
    saved,              \* the embeddings an earlier inference call returned
    \* config.py and the training loop
    pc,                 \* where the training loop stands
    stage,              \* index of the current stage in TRAINING_STAGES
    epoch,              \* epochs run in the current stage
    total_epochs,       \* epochs run in all stages
    n_batch,            \* batches stepped in the current epoch
    requires_grad,      \* the requires_grad flag of every parameter
    optimizer,          \* the optimizer of the current stage
    updated             \* parameters the current optimizer has stepped

dataset_vars ==
    <<csv, max_size_seq_len, sample, df, datasets, jsons, image_files>>

clip_vars == <<net, image, text, out, saved>>

train_vars ==
    <<pc, stage, epoch, total_epochs, n_batch, requires_grad, optimizer,
      updated>>

vars == <<dataset_vars, clip_vars, train_vars>>

Idle == "idle"

ClipIdle ==
    /\ net = Idle
    /\ image = Idle
    /\ text = Idle
    /\ out = Idle
    /\ saved = Idle

TrainIdle ==
    /\ pc = Idle
    /\ stage = Idle
    /\ epoch = Idle
    /\ total_epochs = Idle
    /\ n_batch = Idle
    /\ requires_grad = Idle
    /\ optimizer = Idle
    /\ updated = Idle

\* ------------------------------------------------------------------ helpers

Min(a, b) == IF a < b THEN a ELSE b

Max(a, b) == IF a > b THEN a ELSE b

RECURSIVE SumSeq(_)
SumSeq(s) == IF s = <<>> THEN 0 ELSE s[1] + SumSeq(Tail(s))

\* ------------------------------------------------------------------ bounds

\* Largest max_size_seq_len tried, and most captions in one Caption Record.
MaxSeqLen == 2

MaxCaptions == 2

\* Caption rows and distinct image files handed to create_datasets_from_csv.
MaxRows == 4

NumImages == 3

\* Largest batch of images, and of texts, handed to forward / inference.
MaxBatch == 2

\* The embedding dimension of the two backbones in SpecSimilarity, and the
\* largest backbone output dimension tried in SpecEncoderPair.
EmbedDim == 2

MaxShape == 2

\* Sentences in the json files handed to create_datasets_from_json.
MaxSentences == 2

\* Batches in one pass over the training loader.
NumBatches == 2

\* Parameter tensors of the two pretrained backbones (wide_resnet50 without
\* its classifier, distilbert).
NumImgParams == 159

NumTextParams == 100

\* ---------------------------------------------------- the caption sampler

\* The worst rank: `marks = 5 - np.array(...)`.
WorstRank == 5

Ranks == 1..WorstRank

\* A caption string is identified with the token ids its tokenization yields;
\* the captions tried are <<>>, <<1>>, <<1,2>>, ... up to one id more than the
\* longest max_size_seq_len, so truncation, exact fit and padding all occur.
Texts == { [i \in 1..n |-> i] : n \in 0..(MaxSeqLen + 1) }

\* tokenizer(text, return_tensors="pt")['input_ids']: a batch of one row.
tokenizer(caption) == [input_ids |-> <<caption>>]

\* Tensor.squeeze(0): drops dimension 0 when its size is 1.
squeeze0(tensor) == IF Len(tensor) = 1 THEN tensor[1] ELSE tensor

\* s[:k], Python slice semantics (a negative k counts from the end).
SliceTo(s, k) ==
    IF k >= 0 THEN SubSeq(s, 1, Min(k, Len(s)))
              ELSE SubSeq(s, 1, Max(0, Len(s) + k))

\* [0] * n: empty when n <= 0.
Zeros(n) == [i \in 1..Max(n, 0) |-> 0]

\* dataset.py 57-68: tokenize, truncate, right-pad with 0.
pad(tokenized_text, max_len) ==
    LET padding_count == max_len - Len(tokenized_text)
    IN  IF padding_count # 0
        THEN tokenized_text \o Zeros(padding_count)
        ELSE tokenized_text

\* (faulty variant: the [:max_size_seq_len] slice is forgotten)
tokenize_mut(caption, max_len) ==
    pad(squeeze0(tokenizer(caption).input_ids), max_len)

tokenize(caption, max_len) ==
    pad(SliceTo(squeeze0(tokenizer(caption).input_ids), max_len), max_len)

\* numpy true division of the integer a by the integer b: a rational, or
\* nan / inf / -inf when b = 0 (numpy warns and does not raise).
np_divide(a, b) ==
    IF b # 0 THEN [kind |-> "num", num |-> a, den |-> b]
    ELSE IF a = 0 THEN [kind |-> "nan", num |-> 0, den |-> 0]
    ELSE IF a > 0 THEN [kind |-> "inf", num |-> a, den |-> 0]
    ELSE [kind |-> "-inf", num |-> a, den |-> 0]

\* dataset.py 54: marks = 5 - np.array(comment_number)
\* (faulty variant: the weights are taken from 6 instead of 5)
marks_mut(comment_number) ==
    [k \in DOMAIN comment_number |-> (WorstRank + 1) - comment_number[k]]

marks_of(comment_number) ==
    [k \in DOMAIN comment_number |-> WorstRank - comment_number[k]]

\* dataset.py 55: probability = marks / np.sum(marks)
probability_of(marks) ==
    [k \in DOMAIN marks |-> np_divide(marks[k], SumSeq(marks))]

\* The sign of a probability entry, and whether the entries sum to 1.
IsNegative(p) ==
    \/ p.kind = "-inf"
    \/ p.kind = "num" /\ ((p.num < 0 /\ p.den > 0) \/ (p.num > 0 /\ p.den < 0))

IsPositive(p) ==
    \/ p.kind = "inf"
    \/ p.kind = "num" /\ ((p.num > 0 /\ p.den > 0) \/ (p.num < 0 /\ p.den < 0))

\* The sum of the entries is nan when one is nan or inf meets -inf.
SumIsNaN(p) ==
    \/ \E k \in DOMAIN p : p[k].kind = "nan"
    \/ /\ \E k \in DOMAIN p : p[k].kind = "inf"
       /\ \E k \in DOMAIN p : p[k].kind = "-inf"

\* All entries share the denominator np.sum(marks), so the sum is 1 exactly
\* when the numerators add up to it.
SumIsOne(p) ==
    /\ \A k \in DOMAIN p : p[k].kind = "num"
    /\ SumSeq([k \in DOMAIN p |-> p[k].num]) = p[1].den

\* np.random.choice(a, p=p): the checks numpy makes on p, in its order, and
\* then the indices it can draw: those of positive probability.
choice_error(a, p) ==
    IF Len(a) = 0 THEN "ValueError: a must be non-empty"
    ELSE IF Len(p) # Len(a) THEN "ValueError: a and p must have same size"
    ELSE IF SumIsNaN(p) THEN "ValueError: probabilities contain NaN"
    ELSE IF \E k \in DOMAIN p : IsNegative(p[k])
        THEN "ValueError: probabilities are not non-negative"
    ELSE IF ~SumIsOne(p) THEN "ValueError: probabilities do not sum to 1"
    ELSE "none"

\* (faulty variant: p is ignored and every index can be drawn)
choice_indices_mut(a, p) ==
    IF choice_error(a, p) # "none" THEN {} ELSE DOMAIN p

choice_indices(a, p) ==
    IF choice_error(a, p) # "none" THEN {}
    ELSE { k \in DOMAIN p : IsPositive(p[k]) }

NoSample ==
    [status |-> "none", item |-> 0, index |-> 0, text |-> <<>>,
     probability |-> <<>>, tokens |-> <<>>]

\* TextAndImageFromCSV.__getitem__(item), dataset.py 53-72 (the image half,
\* lines 46-51, is the collaborator's decode and is left out).
getitem(item) ==
    /\ item \in DOMAIN csv
    /\ LET texts == csv[item].comment
           marks == marks_of(csv[item].comment_number)
           probability == probability_of(marks)
           err == choice_error(texts, probability)
       IN  IF err # "none"
           THEN sample' = [status |-> err, item |-> item, index |-> 0,
                           text |-> <<>>, probability |-> probability,
                           tokens |-> <<>>]
           ELSE \E k \in choice_indices(texts, probability) :
                    sample' = [status |-> "ok", item |-> item, index |-> k,
                               text |-> texts[k],
                               probability |-> probability,
                               tokens |-> tokenize(texts[k], max_size_seq_len)]
    /\ UNCHANGED <<csv, max_size_seq_len, df, datasets, jsons, image_files,
                   clip_vars, train_vars>>

\* A Caption Record: one image with its captions and their ranks.
CaptionRecords ==
    UNION { { [image_name |-> 1, comment |-> c, comment_number |-> r] :
                c \in [1..k -> Texts], r \in [1..k -> Ranks] } :
            k \in 1..MaxCaptions }

InitSampler ==
    /\ csv \in { <<rec>> : rec \in CaptionRecords }
    /\ max_size_seq_len \in 1..MaxSeqLen
    /\ sample = NoSample
    /\ df = Idle
    /\ datasets = Idle
    /\ jsons = Idle
    /\ image_files = Idle
    /\ ClipIdle
    /\ TrainIdle

NextSampler == \E item \in DOMAIN csv : getitem(item)

SpecSampler == InitSampler /\ [][NextSampler]_vars

\* ------------------------------------------------ claims on the sampler

Sampled == sample.status # "none"

SampledRecord == csv[sample.item]

AllWorst(rec) ==
    \A k \in DOMAIN rec.comment_number : rec.comment_number[k] = WorstRank

\* C2: whatever the caption and max_size_seq_len >= 1, the token sequence
\* __getitem__ returns has length exactly max_size_seq_len: the first
\* max_size_seq_len ids of the tokenizer unchanged when it yields more, and
\* otherwise its ids followed only by 0s on the right.
C2_FixedLength ==
    sample.status = "ok" =>
        LET ids == sample.text
            toks == sample.tokens
        IN  /\ max_size_seq_len >= 1
            /\ Len(toks) = max_size_seq_len
            /\ \A i \in 1..max_size_seq_len :
                    toks[i] = IF i <= Len(ids) THEN ids[i] ELSE 0

C2_Witness ==
    /\ sample.status = "ok"
    /\ Len(sample.text) > max_size_seq_len
    /\ sample.tokens = SubSeq(sample.text, 1, max_size_seq_len)

\* C3: sampling from a Caption Record whose ranks are all 5 raises an error
\* (numpy's ValueError on the NaN probabilities 0/0); no caption is returned
\* and no index is drawn.
C3_AllWorstRaises ==
    (Sampled /\ AllWorst(SampledRecord)) =>
        /\ sample.status = "ValueError: probabilities contain NaN"
        /\ sample.index = 0
        /\ sample.tokens = <<>>
        /\ \A k \in DOMAIN sample.probability :
               sample.probability[k].kind = "nan"

C3_Witness ==
    /\ Sampled
    /\ Len(SampledRecord.comment_number) = 2
    /\ AllWorst(SampledRecord)
    /\ sample.status # "ok"

\* C4: for a Caption Record with ranks in 1..5 and at least one rank below 5
\* the sampler draws caption k with probability (5 - r_k) / sum_j (5 - r_j):
\* the probabilities are non-negative and sum to 1, exactly the captions of
\* rank below 5 can be drawn, and the caption returned is the record's
\* caption at the drawn index.
C4_RankWeighted ==
    (Sampled /\ ~AllWorst(SampledRecord)) =>
        LET r == SampledRecord.comment_number
            p == sample.probability
            total == SumSeq([k \in DOMAIN r |-> 5 - r[k]])
        IN  /\ sample.status = "ok"
            /\ total > 0
            /\ DOMAIN p = DOMAIN r
            /\ \A k \in DOMAIN p :
                   /\ p[k].kind = "num"
                   /\ p[k].num * total = (5 - r[k]) * p[k].den
                   /\ p[k].den > 0 /\ p[k].num >= 0
            /\ SumSeq([k \in DOMAIN p |-> p[k].num]) = p[1].den
            /\ choice_indices(SampledRecord.comment, p)
                   = { k \in DOMAIN r : r[k] < 5 }
            /\ sample.index \in DOMAIN r
            /\ r[sample.index] < 5
            /\ sample.text = SampledRecord.comment[sample.index]

\* ranks [1,3] give probabilities [2/3, 1/3]; the second caption is drawn.
C4_Witness ==
    /\ Sampled
    /\ SampledRecord.comment_number = <<1, 3>>
    /\ sample.status = "ok"
    /\ sample.index = 2
    /\ 3 * sample.probability[1].num = 2 * sample.probability[1].den
    /\ 3 * sample.probability[2].num = 1 * sample.probability[2].den

\* ------------------------------------------- create_datasets_from_csv

\* round(x) of Python for x = num/den, den > 0: to the nearest integer, a
\* tie going to the even one.
round(num, den) ==
    LET q == num \div den
        r == num % den
    IN  IF 2 * r < den THEN q
        ELSE IF 2 * r > den THEN q + 1
        ELSE IF q % 2 = 0 THEN q ELSE q + 1

\* dataset.py 107: join_path(dir_image, x), the file name under the directory.
join_path(dir_image, x) == <<dir_image, x>>

PathLess(a, b) == a[2] < b[2]

\* The distinct keys of a column, in ascending order (groupby sorts its keys).
RECURSIVE SortedKeys(_)
SortedKeys(keys) ==
    IF keys = {} THEN <<>>
    ELSE LET least == CHOOSE k \in keys : \A o \in keys : ~PathLess(o, k)
         IN  <<least>> \o SortedKeys(keys \ {least})

RowsOf(frame, key) == SelectSeq(frame, LAMBDA row : row.image_name = key)

Column(frame, name) == [i \in DOMAIN frame |-> frame[i][name]]

\* dataset.py 109-111: df.groupby(by='image_name', as_index=False).agg(
\* {'comment_number': list, 'comment': list}): one row per image, holding the
\* lists of its rows' ranks and captions in row order.
groupby_image_name(frame) ==
    LET keys == SortedKeys({ frame[i].image_name : i \in DOMAIN frame })
    IN  [g \in DOMAIN keys |->
            [image_name |-> keys[g],
             comment_number |-> Column(RowsOf(frame, keys[g]), "comment_number"),
             comment |-> Column(RowsOf(frame, keys[g]), "comment")]]

\* dataset.py 107: the image_name column joined to dir_image.
with_paths(frame) ==
    [i \in DOMAIN frame |->
        [frame[i] EXCEPT !.image_name = join_path("dir_image", @)]]

\* dataset.py 113-114: the first round(0.8 * n) rows and the rest.
split(frame) ==
    LET num_example == Len(frame)
        cut == round(8 * num_example, 10)
    IN  [created |-> TRUE,
         train |-> SubSeq(frame, 1, cut),
         valid |-> SubSeq(frame, cut + 1, num_example)]

\* (faulty variant: the rows are split before they are grouped by image)
create_datasets_from_csv_mut(frame) ==
    LET halves == split(with_paths(frame))
    IN  [created |-> TRUE,
         train |-> groupby_image_name(halves.train),
         valid |-> groupby_image_name(halves.valid)]

\* create_datasets_from_csv, dataset.py 99-128, on a frame df that is given.
\* Line 112, df.sample(frac=1).reset_index(drop=True), drops its result: the
\* frame is not shuffled.
create_datasets_from_csv(frame) ==
    split(groupby_image_name(with_paths(frame)))

NoDatasets == [created |-> FALSE, train |-> <<>>, valid |-> <<>>]

create_datasets ==
    /\ ~datasets.created
    /\ datasets' = create_datasets_from_csv(df)
    /\ UNCHANGED <<csv, max_size_seq_len, sample, df, jsons, image_files,
                   clip_vars, train_vars>>

\* TextAndImageFromCSV.__len__, dataset.py 74-75, of either returned dataset.
dataset_len(name) == Len(datasets[name])

\* The caption rows tried: row i carries caption i and the rank i is given by
\* the row's place; the image of each row is free.
RowRank(i) == ((i - 1) % WorstRank) + 1

Frames ==
    UNION { { [i \in 1..n |->
                 [image_name |-> img[i], comment |-> <<i>>,
                  comment_number |-> RowRank(i)]] :
              img \in [1..n -> 1..NumImages] } :
            n \in 0..MaxRows }

InitSplit ==
    /\ df \in Frames
    /\ datasets = NoDatasets
    /\ csv = Idle
    /\ max_size_seq_len = Idle
    /\ sample = Idle
    /\ jsons = Idle
    /\ image_files = Idle
    /\ ClipIdle
    /\ TrainIdle

NextSplit == create_datasets

SpecSplit == InitSplit /\ [][NextSplit]_vars

\* ------------------------------------------------- claims on the split

Created == datasets.created

ImageKeys == { join_path("dir_image", df[i].image_name) : i \in DOMAIN df }

KeysOf(frame) == { frame[i].image_name : i \in DOMAIN frame }

CaptionsOf(frame) ==
    UNION { { frame[i].comment[k] : k \in DOMAIN frame[i].comment } :
            i \in DOMAIN frame }

\* C5: the split is per image record: every image key is in exactly one of
\* train and valid and none is dropped, no image has captions on both sides,
\* every caption row lands with its image, and of n image records train
\* holds round(0.8 n) (the integer nearest to 0.8 n) and valid the rest.
C5_SplitPerImage ==
    Created =>
        LET n == Cardinality(ImageKeys)
            t == dataset_len("train")
            v == dataset_len("valid")
        IN  /\ KeysOf(datasets.train) \cap KeysOf(datasets.valid) = {}
            /\ KeysOf(datasets.train) \cup KeysOf(datasets.valid) = ImageKeys
            /\ t = Cardinality(KeysOf(datasets.train))
            /\ v = Cardinality(KeysOf(datasets.valid))
            /\ t + v = n
            /\ 10 * t - 8 * n \in -4..4
            /\ \A i \in DOMAIN df :
                  \E name \in {"train", "valid"} :
                     \E g \in DOMAIN datasets[name] :
                        /\ datasets[name][g].image_name
                              = join_path("dir_image", df[i].image_name)
                        /\ \E k \in DOMAIN datasets[name][g].comment :
                              /\ datasets[name][g].comment[k] = df[i].comment
                              /\ datasets[name][g].comment_number[k]
                                    = df[i].comment_number
            /\ CaptionsOf(datasets.train) \cap CaptionsOf(datasets.valid) = {}

\* three images, one of them with two captions that a per-caption cut would
\* separate; the validation set is not empty
C5_Witness ==
    /\ Created
    /\ Len(df) = 4
    /\ df[1].image_name = df[4].image_name
    /\ Cardinality(ImageKeys) = 3
    /\ dataset_len("train") = 2
    /\ dataset_len("valid") = 1

\* ------------------------------------------ create_datasets_from_json

\* The sentid values tried: 0, one within 1..5, one within 6..10 and one
\* above 10.
SentIds == {0, 3, 7, 11}

\* The raw sentences and the file names tried.
Raws == { <<1>>, <<1, 2>> }

FileNames == 1..2

\* A sentence of an image: description['raw'] and description['sentid'].
Descriptions == [raw : Raws, sentid : SentIds]

\* The json files tried: two files with one image each, the images carrying
\* at most MaxSentences sentences between them; the two images may bear the
\* same file name and repeat a sentence.
JsonFile(filename, sentences) ==
    [images |-> << [filename |-> filename, sentences |-> sentences] >>]

SentenceCounts ==
    { n \in (0..MaxSentences) \X (0..MaxSentences) : n[1] + n[2] <= MaxSentences }

JsonInputs ==
    UNION { { << JsonFile(f[1], s1), JsonFile(f[2], s2) >> :
                f \in [1..2 -> FileNames],
                s1 \in [1..n[1] -> Descriptions],
                s2 \in [1..n[2] -> Descriptions] } :
            n \in SentenceCounts }

\* dataset.py 157-161: the three nested loops, in their order: every
\* (filename, description) of every image of every json file.
RECURSIVE ImagesOf(_)
ImagesOf(js) ==
    IF js = <<>> THEN <<>> ELSE js[1].images \o ImagesOf(Tail(js))

RECURSIVE SentencesOf(_)
SentencesOf(images) ==
    IF images = <<>> THEN <<>>
    ELSE [k \in DOMAIN images[1].sentences |->
             [filename |-> images[1].filename,
              description |-> images[1].sentences[k]]]
         \o SentencesOf(Tail(images))

\* dataset.py 170-173: the rank of a sentence is 1 when its sentid is above
\* 10 and its sentid itself otherwise.
comment_number_of(description) ==
    IF description.sentid > 10 THEN 1 ELSE description.sentid

\* dataset.py 162-173: the loop body, over the sentences left; seen is
\* df_file_and_sentence and frame the rows of df appended so far.
RECURSIVE collect(_, _, _)
collect(entries, seen, frame) ==
    IF entries = <<>> THEN frame
    ELSE LET filename == entries[1].filename
             sentence == entries[1].description.raw
         IN  IF /\ <<filename, sentence>> \notin seen
                /\ join_path("dir_image", filename) \in image_files
             THEN collect(Tail(entries), seen \cup {<<filename, sentence>>},
                          Append(frame,
                                 [image_name |-> filename,
                                  comment |-> sentence,
                                  comment_number |->
                                      comment_number_of(entries[1].description)]))
             ELSE collect(Tail(entries), seen, frame)

\* create_datasets_from_json, dataset.py 131-178: the rows are collected and
\* handed to create_datasets_from_csv as df.
create_datasets_from_json ==
    /\ ~datasets.created
    /\ df' = collect(SentencesOf(ImagesOf(jsons)), {}, <<>>)
    /\ datasets' = create_datasets_from_csv(df')
    /\ UNCHANGED <<csv, max_size_seq_len, sample, jsons, image_files,
                   clip_vars, train_vars>>

InitJson ==
    /\ jsons \in JsonInputs
    /\ image_files \in { { join_path("dir_image", x) : x \in present } :
                           present \in { {1}, FileNames } }
    /\ df = <<>>
    /\ datasets = NoDatasets
    /\ csv = Idle
    /\ max_size_seq_len = Idle
    /\ sample = Idle
    /\ ClipIdle
    /\ TrainIdle

NextJson == create_datasets_from_json

SpecJson == InitJson /\ [][NextJson]_vars

\* -------------------------------------- claims on the json Caption Records

CaptionRecordsBuilt ==
    { datasets.train[g] : g \in DOMAIN datasets.train }
        \cup { datasets.valid[g] : g \in DOMAIN datasets.valid }

\* C11: every Caption Record built by create_datasets_from_json has caption
\* and rank lists of equal, non-zero length, every rank in 1..5 and so every
\* sampling weight 5 - rank in 0..4, whatever sentid the sentences carry.
C11_JsonRanksInRange ==
    Created =>
        \A rec \in CaptionRecordsBuilt :
            /\ Len(rec.comment) = Len(rec.comment_number)
            /\ Len(rec.comment) >= 1
            /\ \A k \in DOMAIN rec.comment_number :
                   /\ rec.comment_number[k] \in 1..5
                   /\ marks_of(rec.comment_number)[k] \in 0..4

\* ------------------------------------------------------------ tensors

RECURSIVE GCD(_, _)
GCD(a, b) == IF b = 0 THEN a ELSE GCD(b, a % b)

Dot(a, b) == SumSeq([i \in DOMAIN a |-> a[i] * b[i]])

Norm2(v) == Dot(v, v)

\* A row of a feature tensor is the real vector v * sqrt(num / den), with
\* num / den a positive fraction in lowest terms, or a row of NaN.
Row(v, num, den) ==
    [nan |-> FALSE, v |-> v,
     num |-> num \div GCD(num, den), den |-> den \div GCD(num, den)]

NaNRow(v) == [nan |-> TRUE, v |-> [i \in DOMAIN v |-> 0], num |-> 1, den |-> 1]

\* An image, and a text, is identified with the vector its pretrained
\* backbone maps it to: the backbones are collaborators.
BaseVectors == { <<0, 0>>, <<1, 1>>, <<-1, 1>>, <<2, 0>> }

Fit(v, d) == [i \in 1..d |-> IF i <= Len(v) THEN v[i] ELSE 0]

Vectors(d) == { Fit(v, d) : v \in BaseVectors }

Batches(d, most) == UNION { [1..n -> Vectors(d)] : n \in 1..most }

image_embedding(batch) == [r \in DOMAIN batch |-> Row(batch[r], 1, 1)]

text_embedding(batch) == [r \in DOMAIN batch |-> Row(batch[r], 1, 1)]

\* nn.Linear(in_features, out_features) on one row: W v, with the fixed
\* weights W[o][i] = 1 when o + i is even and 0 otherwise standing for the
\* learned ones, and no bias.
LinearWeight(o, i) == IF (o + i) % 2 = 0 THEN 1 ELSE 0

Linear(layer, row) ==
    IF row.nan THEN NaNRow([o \in 1..layer.out_features |-> 0])
    ELSE [row EXCEPT !.v =
             [o \in 1..layer.out_features |->
                 SumSeq([i \in 1..layer.in_features |->
                            LinearWeight(o, i) * row.v[i]])]]

NoLinear == [projection |-> FALSE, in_features |-> 0, out_features |-> 0]

\* CLIP.__init__, src/clip.py 17-43: the text model as given, the image
\* model followed by a Linear(image_shape, text_shape) unless the shapes
\* agree ("overall dim is 'text_shape'").
\* (faulty variant: the projection is never appended)
CLIP_init_mut(image_shape, text_shape) ==
    [image_shape |-> image_shape, text_shape |-> text_shape,
     text_model |-> NoLinear, image_model |-> NoLinear]

CLIP_init(image_shape, text_shape) ==
    [image_shape |-> image_shape, text_shape |-> text_shape,
     text_model |-> NoLinear,
     image_model |->
        IF image_shape = text_shape THEN NoLinear
        ELSE [projection |-> TRUE, in_features |-> image_shape,
              out_features |-> text_shape]]

\* self.image_model(image) and self.text_model(text)
image_model(n, batch) ==
    IF n.image_model.projection
    THEN [r \in DOMAIN batch |-> Linear(n.image_model, image_embedding(batch)[r])]
    ELSE image_embedding(batch)

text_model(n, batch) ==
    IF n.text_model.projection
    THEN [r \in DOMAIN batch |-> Linear(n.text_model, text_embedding(batch)[r])]
    ELSE text_embedding(batch)

\* x / x.norm(dim=-1, keepdim=True) on one row, src/clip.py 52-55 and 65-68:
\* x = v sqrt(num/den) has squared norm |v|^2 num/den; 0/0 is NaN and torch
\* raises nothing.
div_by_norm(row) ==
    IF row.nan \/ Norm2(row.v) = 0 THEN NaNRow(row.v)
    ELSE Row(row.v, row.num * row.den, row.den * Norm2(row.v) * row.num)

\* torch.nn.functional.normalize on one row: x / max(norm, eps), so a zero
\* row stays the zero row.
normalize_row(row) ==
    IF row.nan THEN NaNRow(row.v)
    ELSE IF Norm2(row.v) = 0 THEN Row(row.v, 1, 1)
    ELSE Row(row.v, row.num * row.den, row.den * Norm2(row.v) * row.num)

normalize(rows) == [r \in DOMAIN rows |-> normalize_row(rows[r])]

\* One entry of a logit matrix, in units of exp(logit_scale) > 0: the real
\* number dot * sqrt(num / den), or NaN.
Entry(a, b) ==
    IF a.nan \/ b.nan
    THEN [nan |-> TRUE, dot |-> 0, num |-> 1, den |-> 1]
    ELSE [nan |-> FALSE, dot |-> Dot(a.v, b.v),
          num |-> (a.num * b.num) \div GCD(a.num * b.num, a.den * b.den),
          den |-> (a.den * b.den) \div GCD(a.num * b.num, a.den * b.den)]

\* Whether the rows of a and of b have one length, as a @ b.t() needs.
SameWidth(a, b) ==
    \A i \in DOMAIN a : \A j \in DOMAIN b : Len(a[i].v) = Len(b[j].v)

\* logit_scale * a @ b.t()
scaled_matmul_t(a, b) ==
    [i \in DOMAIN a |-> [j \in DOMAIN b |-> Entry(a[i], b[j])]]

\* Tensor.t() of a matrix with at least one row.
\* (faulty variant: the matrix is returned as it is)
t_mut(m) == m

t(m) == [j \in DOMAIN m[1] |-> [i \in DOMAIN m |-> m[i][j]]]

\* The order of two logits: x < y as IEEE compares them (false on NaN).
Sign(x) == IF x > 0 THEN 1 ELSE IF x < 0 THEN -1 ELSE 0

Less(x, y) ==
    /\ ~x.nan /\ ~y.nan
    /\ \/ Sign(x.dot) < Sign(y.dot)
       \/ /\ Sign(x.dot) = 1 /\ Sign(y.dot) = 1
          /\ x.dot * x.dot * x.num * y.den < y.dot * y.dot * y.num * x.den
       \/ /\ Sign(x.dot) = -1 /\ Sign(y.dot) = -1
          /\ x.dot * x.dot * x.num * y.den > y.dot * y.dot * y.num * x.den

\* torch.argmax(logits, dim=1) on one row: a scan that keeps the first
\* largest entry, a NaN counting as larger than every number. The index is
\* 0-based.
RECURSIVE ArgmaxScan(_, _, _)
ArgmaxScan(row, best, j) ==
    IF j > Len(row) THEN best - 1
    ELSE IF Less(row[best], row[j]) \/ (row[j].nan /\ ~row[best].nan)
         THEN ArgmaxScan(row, j, j + 1)
         ELSE ArgmaxScan(row, best, j + 1)

\* (faulty variant: dim=0, the largest entry of each column)
argmax_dim1_mut(m) == [j \in DOMAIN t(m) |-> ArgmaxScan(t(m)[j], 1, 2)]

argmax_dim1(m) == [i \in DOMAIN m |-> ArgmaxScan(m[i], 1, 2)]

\* ----------------------------------------- src/clip.py: class CLIP

\* An optional features argument: None, or the tensor given.
None == [given |-> FALSE, rows |-> <<>>]

Given(rows) == [given |-> TRUE, rows |-> rows]

\* _forward_image and _forward_text, src/clip.py 45-69.
forward_image(n, batch) ==
    LET embedding == image_model(n, batch)
    IN  [r \in DOMAIN embedding |-> div_by_norm(embedding[r])]

forward_text(n, batch) ==
    LET embedding == text_model(n, batch)
    IN  [r \in DOMAIN embedding |-> div_by_norm(embedding[r])]

\* _cosine_similarity, src/clip.py 125-139; the matrix product raises a
\* RuntimeError when the two widths differ.
cosine_similarity(image_features, text_features) ==
    IF ~SameWidth(image_features, text_features)
    THEN [error |-> "RuntimeError", logits_image |-> <<>>, logits_text |-> <<>>]
    ELSE LET logits_image == scaled_matmul_t(image_features, text_features)
         IN  [error |-> "none", logits_image |-> logits_image,
              logits_text |-> t(logits_image)]

NoCall ==
    [op |-> "none", error |-> "none", logits_image |-> <<>>,
     logits_text |-> <<>>, classes |-> <<>>, image_features |-> <<>>,
     text_features |-> <<>>, image_calls |-> 0, text_calls |-> 0,
     given_image |-> FALSE, given_text |-> FALSE]

\* What a call returns, with its locals: the logits, the classes when it is
\* an inference, the embeddings, and how often each encoder was run.
Returned(op, sim, with_classes, image_features, text_features, gi, gt) ==
    [op |-> op, error |-> sim.error,
     logits_image |-> sim.logits_image,
     logits_text |-> sim.logits_text,
     classes |-> IF with_classes /\ sim.error = "none"
                 THEN argmax_dim1(sim.logits_image) ELSE <<>>,
     image_features |-> image_features,
     text_features |-> text_features,
     image_calls |-> IF gi THEN 0 ELSE 1,
     text_calls |-> IF gt THEN 0 ELSE 1,
     given_image |-> gi, given_text |-> gt]

Scored(op, with_classes, image_features, text_features, gi, gt) ==
    Returned(op, cosine_similarity(image_features, text_features),
             with_classes, image_features, text_features, gi, gt)

\* CLIP.forward, src/clip.py 71-89.
CLIP_forward(n, image_in, text_in) ==
    Scored("CLIP.forward", FALSE,
           forward_image(n, image_in), forward_text(n, text_in),
           FALSE, FALSE)

\* CLIP.inference, src/clip.py 91-119, with is_raw_output=True.
CLIP_inference(n, image_in, text_in, image_features_in, text_features_in) ==
    Scored("CLIP.inference", TRUE,
           IF image_features_in.given THEN image_features_in.rows
           ELSE forward_image(n, image_in),
           IF text_features_in.given THEN text_features_in.rows
           ELSE forward_text(n, text_in),
           image_features_in.given, text_features_in.given)

\* ------------------------- src/model/clip.py: VisionPartCLIP and CLIP

\* VisionPartCLIP.forward, src/model/clip.py 50-56, from the normalized
\* image embedding on; the matrix product raises a RuntimeError when the two
\* widths differ.
vision_logits(image_embedding_n, text_embedding_in) ==
    IF ~SameWidth(image_embedding_n, text_embedding_in)
    THEN [error |-> "RuntimeError", logits_image |-> <<>>, logits_text |-> <<>>]
    ELSE LET image_logit == scaled_matmul_t(image_embedding_n, text_embedding_in)
         IN  [error |-> "none", logits_image |-> image_logit,
              logits_text |-> t(image_logit)]

VisionScored(op, with_classes, image_embedding_n, text_embedding_n, gi, gt) ==
    Returned(op, vision_logits(image_embedding_n, text_embedding_n),
             with_classes, image_embedding_n, text_embedding_n, gi, gt)

\* VisionPartCLIP.forward, src/model/clip.py 32-56, as CLIP.forward calls
\* it; vision_model is the image model of the pair.
VisionPartCLIP_forward(op, with_classes, n, image_in, text_embedding_in, image_features_in, gt) ==
    VisionScored(op, with_classes,
                 normalize(IF image_features_in.given
                           THEN image_features_in.rows
                           ELSE image_model(n, image_in)),
                 text_embedding_in, image_features_in.given, gt)

\* CLIP.forward, src/model/clip.py 90-117.
ModelCLIP_call(op, with_classes, n, image_in, text_in, image_features_in, text_features_in) ==
    VisionPartCLIP_forward(op, with_classes, n, image_in,
                           normalize(IF text_features_in.given
                                     THEN text_features_in.rows
                                     ELSE text_model(n, text_in)),
                           image_features_in, text_features_in.given)

ModelCLIP_forward(n, image_in, text_in, image_features_in, text_features_in) ==
    ModelCLIP_call("model.CLIP.forward", FALSE, n, image_in, text_in,
                   image_features_in, text_features_in)

\* CLIP.inference, src/model/clip.py 119-143: forward, then argmax(dim=1).
ModelCLIP_inference(n, image_in, text_in, image_features_in, text_features_in) ==
    ModelCLIP_call("model.CLIP.inference", TRUE, n, image_in, text_in,
                   image_features_in, text_features_in)

\* ------------------------------------------------------------ actions

NothingSaved ==
    [impl |-> "none", classes |-> <<>>, image_features |-> <<>>,
     text_features |-> <<>>]

SavedFrom(result) ==
    [impl |-> result.op, classes |-> result.classes,
     image_features |-> result.image_features,
     text_features |-> result.text_features]

Supplied(flag, rows) == IF flag THEN Given(rows) ELSE None

\* The calls are stateless: a run makes one call on its inputs, and after an
\* inference it may call inference again with the embeddings it got back.
Forward ==
    /\ out.op = "none"
    /\ out' = CLIP_forward(net, image, text)
    /\ UNCHANGED <<net, image, text, saved, dataset_vars, train_vars>>

\* inference on the inputs alone; the caller keeps the embeddings returned.
Inference ==
    /\ out.op = "none"
    /\ out' = CLIP_inference(net, image, text, None, None)
    /\ saved' = IF out'.error = "none" THEN SavedFrom(out') ELSE saved
    /\ UNCHANGED <<net, image, text, dataset_vars, train_vars>>

\* inference with the kept embeddings given for one side or for both.
InferenceWithFeatures ==
    /\ saved.impl = "CLIP.inference"
    /\ ~out.given_image /\ ~out.given_text
    /\ \E gi, gt \in BOOLEAN :
          /\ gi \/ gt
          /\ out' = CLIP_inference(net, image, text,
                                   Supplied(gi, saved.image_features),
                                   Supplied(gt, saved.text_features))
    /\ UNCHANGED <<net, image, text, saved, dataset_vars, train_vars>>

ModelForward ==
    /\ out.op = "none"
    /\ out' = ModelCLIP_forward(net, image, text, None, None)
    /\ UNCHANGED <<net, image, text, saved, dataset_vars, train_vars>>

ModelInference ==
    /\ out.op = "none"
    /\ out' = ModelCLIP_inference(net, image, text, None, None)
    /\ saved' = IF out'.error = "none"
                THEN SavedFrom(out') ELSE saved
    /\ UNCHANGED <<net, image, text, dataset_vars, train_vars>>

ModelInferenceWithFeatures ==
    /\ saved.impl = "model.CLIP.inference"
    /\ ~out.given_image /\ ~out.given_text
    /\ \E gi, gt \in BOOLEAN :
          /\ gi \/ gt
          /\ out' = ModelCLIP_inference(net, image, text,
                                        Supplied(gi, saved.image_features),
                                        Supplied(gt, saved.text_features))
    /\ UNCHANGED <<net, image, text, saved, dataset_vars, train_vars>>

DatasetIdle ==
    /\ csv = Idle
    /\ max_size_seq_len = Idle
    /\ sample = Idle
    /\ df = Idle
    /\ datasets = Idle
    /\ jsons = Idle
    /\ image_files = Idle

InitSimilarity ==
    /\ net = CLIP_init(EmbedDim, EmbedDim)
    /\ image \in Batches(EmbedDim, MaxBatch)
    /\ text \in Batches(EmbedDim, MaxBatch)
    /\ out = NoCall
    /\ saved = NothingSaved
    /\ DatasetIdle
    /\ TrainIdle

NextSimilarity ==
    \/ Forward
    \/ Inference
    \/ InferenceWithFeatures
    \/ ModelForward
    \/ ModelInference
    \/ ModelInferenceWithFeatures

SpecSimilarity == InitSimilarity /\ [][NextSimilarity]_vars

\* The encoder pair built for every pair of backbone output dimensions, and
\* run on one image and one text.
InitEncoderPair ==
    /\ \E image_shape, text_shape \in 1..MaxShape :
          /\ net = CLIP_init(image_shape, text_shape)
          /\ image \in Batches(image_shape, 1)
          /\ text \in Batches(text_shape, 1)
    /\ out = NoCall
    /\ saved = NothingSaved
    /\ DatasetIdle
    /\ TrainIdle

NextEncoderPair == Forward \/ Inference

SpecEncoderPair == InitEncoderPair /\ [][NextEncoderPair]_vars

\* ------------------------------------- claims on the similarity head

Called == out.op # "none"

Width(rows) == { Len(rows[r].v) : r \in DOMAIN rows }

\* C1: for every batch, square or not, the text-to-image logits returned by
\* CLIP._cosine_similarity and by VisionPartCLIP.forward are the transpose
\* of the image-to-text logits: logits_t2i[j][i] = logits_i2t[i][j].
C1_Transpose ==
    (Called /\ out.error = "none") =>
        /\ Len(out.logits_image) = Len(image)
        /\ Len(out.logits_text) = Len(text)
        /\ \A j \in DOMAIN text :
              /\ Len(out.logits_text[j]) = Len(image)
              /\ \A i \in DOMAIN image :
                    /\ Len(out.logits_image[i]) = Len(text)
                    /\ out.logits_text[j][i] = out.logits_image[i][j]

\* two images against one text, with two different logits
C1_Witness ==
    /\ out.op = "model.CLIP.forward"
    /\ out.error = "none"
    /\ Len(image) = 2 /\ Len(text) = 1
    /\ out.logits_image[1][1] # out.logits_image[2][1]
    /\ out.logits_text = <<<<out.logits_image[1][1], out.logits_image[2][1]>>>>

ZeroNorm(rows) ==
    \E r \in DOMAIN rows : ~rows[r].nan /\ Norm2(rows[r].v) = 0

\* C8: when a raw image or text embedding has L2 norm exactly zero, the
\* forward pass fails with an error instead of returning NaN or all-zero
\* logits for that row.
C8_ZeroNormFailsLoudly ==
    ( /\ Called
      /\ \/ ~out.given_image /\ ZeroNorm(image_model(net, image))
         \/ ~out.given_text /\ ZeroNorm(text_model(net, text)) )
    => out.error # "none"

IsInference == out.op \in {"CLIP.inference", "model.CLIP.inference"}

\* C9: inference returns for each image the 0-based index of a text whose
\* image-to-text logit no other logit of that image's row exceeds; an
\* encoder runs exactly when its side's features are not supplied; and with
\* the embeddings of an earlier inference call fed back, for either side or
\* both, the predicted indices are those of that call.
C9_Inference ==
    (IsInference /\ out.error = "none") =>
        /\ Len(out.classes) = Len(image)
        /\ \A i \in DOMAIN image :
              /\ out.classes[i] \in 0..(Len(text) - 1)
              /\ \A j \in DOMAIN text :
                    ~Less(out.logits_image[i][out.classes[i] + 1],
                          out.logits_image[i][j])
        /\ out.image_calls = (IF out.given_image THEN 0 ELSE 1)
        /\ out.text_calls = (IF out.given_text THEN 0 ELSE 1)
        /\ (out.given_image \/ out.given_text) =>
               /\ saved.impl = out.op
               /\ out.classes = saved.classes

\* the text embeddings of an earlier call are reused, the image is encoded
\* again, and the second of two texts wins for some image
C9_Witness ==
    /\ out.op = "model.CLIP.inference"
    /\ out.given_text /\ ~out.given_image
    /\ out.text_calls = 0 /\ out.image_calls = 1
    /\ Len(text) = 2
    /\ out.classes[1] = 1
    /\ out.classes = saved.classes

\* ---------------------------------------- claims on the encoder pair

\* C7 as stated: when the two output dimensions differ, the linear
\* projection is appended to the side with the shorter vector; when they
\* are equal no projection is added.
C7_ShorterSideProjected ==
    /\ net.image_shape < net.text_shape =>
          net.image_model.projection /\ ~net.text_model.projection
    /\ net.image_shape > net.text_shape =>
          net.text_model.projection /\ ~net.image_model.projection
    /\ net.image_shape = net.text_shape =>
          ~net.image_model.projection /\ ~net.text_model.projection

\* C7 amended: when the two output dimensions differ, the linear projection
\* Linear(image_shape, text_shape) is appended to the image side, whichever
\* side is shorter, and the text side is left as it is; when they are equal
\* no projection is added; either way both embeddings have dimension
\* text_shape, and the similarity is computed without a shape error.
C7_ImageSideProjected ==
    /\ net.image_shape # net.text_shape =>
          /\ net.image_model.projection
          /\ net.image_model.in_features = net.image_shape
          /\ net.image_model.out_features = net.text_shape
          /\ ~net.text_model.projection
    /\ net.image_shape = net.text_shape =>
          ~net.image_model.projection /\ ~net.text_model.projection
    /\ Called =>
          /\ out.error = "none"
          /\ Width(out.image_features) = {net.text_shape}
          /\ Width(out.text_features) = {net.text_shape}

\* the image backbone's vector is the longer one and it is the one projected
C7_Witness ==
    /\ net.image_shape > net.text_shape
    /\ out.op = "CLIP.forward"
    /\ out.error = "none"
    /\ net.image_model.projection
    /\ Width(out.image_features) = Width(out.text_features)

\* ------------------------------------------- config.py: the stage plan

\* The parameter tensors of Config.MODEL, each named by its submodule and
\* its place in list(submodule.parameters()); the two matrix_normalize
\* layers hold a weight and a bias, logit_scale is the one nn.Parameter of
\* src/clip.py 43.
ParamCount(module) ==
    CASE module = "model_img_emb" -> NumImgParams
      [] module = "model_text_emb" -> NumTextParams
      [] module = "matrix_normalize_img_emb" -> 2
      [] module = "matrix_normalize_text_emb" -> 2
      [] module = "logit_scale" -> 1

Modules ==
    {"model_img_emb", "model_text_emb", "matrix_normalize_img_emb",
     "matrix_normalize_text_emb", "logit_scale"}

\* list(module.parameters())
parameters(module) == { <<module, i>> : i \in 1..ParamCount(module) }

\* list(module.parameters())[k:] for a negative k: the last -k of them, all
\* of them when there are fewer.
SliceFrom(module, k) ==
    { <<module, i>> :
        i \in Max(1, ParamCount(module) + k + 1)..ParamCount(module) }

AllParams == UNION { parameters(m) : m \in Modules }

LogitScale == <<"logit_scale", 1>>

\* Config.TRAINING_STAGES, config.py 55-121.
\* (faulty variant: Stage 3 selects the slices of Stage 2)
TRAINING_STAGES_mut ==
    << [name |-> "Stage 1",
        params |-> parameters("matrix_normalize_img_emb")
                     \cup parameters("matrix_normalize_text_emb"),
        plan |-> "freeze",
        model_img_emb |-> [first_index |-> 0, all_net |-> TRUE],
        model_text_emb |-> [first_index |-> 0, all_net |-> TRUE],
        n_epoch |-> 5],
       [name |-> "Stage 2",
        params |-> SliceFrom("model_img_emb", -70)
                     \cup parameters("matrix_normalize_img_emb")
                     \cup SliceFrom("model_text_emb", -50)
                     \cup parameters("matrix_normalize_text_emb"),
        plan |-> "unfreeze",
        model_img_emb |-> [first_index |-> -70, all_net |-> FALSE],
        model_text_emb |-> [first_index |-> -50, all_net |-> FALSE],
        n_epoch |-> 10],
       [name |-> "Stage 3",
        params |-> SliceFrom("model_img_emb", -70)
                     \cup parameters("matrix_normalize_img_emb")
                     \cup SliceFrom("model_text_emb", -50)
                     \cup parameters("matrix_normalize_text_emb"),
        plan |-> "unfreeze",
        model_img_emb |-> [first_index |-> -120, all_net |-> FALSE],
        model_text_emb |-> [first_index |-> -90, all_net |-> FALSE],
        n_epoch |-> 15] >>

\* Each stage: its name, its 'params' list, its 'freeze' or 'unfreeze' plan
\* for the two backbones (last_index_freeze / first_index_unfreeze and
\* freeze_all_net), and n_epoch. lr and base_optimizer play no part here.
TRAINING_STAGES ==
    << [name |-> "Stage 1",
        params |-> parameters("matrix_normalize_img_emb")
                     \cup parameters("matrix_normalize_text_emb"),
        plan |-> "freeze",
        model_img_emb |-> [first_index |-> 0, all_net |-> TRUE],
        model_text_emb |-> [first_index |-> 0, all_net |-> TRUE],
        n_epoch |-> 5],
       [name |-> "Stage 2",
        params |-> SliceFrom("model_img_emb", -70)
                     \cup parameters("matrix_normalize_img_emb")
                     \cup SliceFrom("model_text_emb", -50)
                     \cup parameters("matrix_normalize_text_emb"),
        plan |-> "unfreeze",
        model_img_emb |-> [first_index |-> -70, all_net |-> FALSE],
        model_text_emb |-> [first_index |-> -50, all_net |-> FALSE],
        n_epoch |-> 10],
       [name |-> "Stage 3",
        params |-> SliceFrom("model_img_emb", -120)
                     \cup parameters("matrix_normalize_img_emb")
                     \cup SliceFrom("model_text_emb", -90)
                     \cup parameters("matrix_normalize_text_emb"),
        plan |-> "unfreeze",
        model_img_emb |-> [first_index |-> -120, all_net |-> FALSE],
        model_text_emb |-> [first_index |-> -90, all_net |-> FALSE],
        n_epoch |-> 15] >>

\* The stage at a 0-based index.
\* (faulty variant: the stages are taken in reverse order)
StageAt_mut(k) == TRAINING_STAGES[Len(TRAINING_STAGES) - k]

StageAt(k) == TRAINING_STAGES[k + 1]

NumStages == Len(TRAINING_STAGES)

\* The submodules a stage's freeze / unfreeze plan names.
PlanModules == {"model_img_emb", "model_text_emb"}

\* ------------------------------------------------- the training loop
\* The loop itself (train_clip, utils.freeze_weight) is not among the
\* sources; it is modelled from the specification's sections 4.4 and 4.5.

\* 4.4 (a): every encoder parameter is non-trainable by default. The
\* encoders are the two backbones the plans name; the top-level projection
\* layers and the logit scale keep their flag.
\* (faulty variant: every parameter of the model is made non-trainable)
default_frozen_mut(flags) == [p \in AllParams |-> FALSE]

default_frozen(flags) ==
    [p \in AllParams |-> IF p[1] \in PlanModules THEN FALSE ELSE flags[p]]

\* 4.4 (b): a freeze plan marks the submodule's parameters (all of them with
\* freeze_all_net) non-trainable; an unfreeze plan marks the parameters from
\* first_index_unfreeze on trainable.
apply_plan(flags, st) ==
    [p \in AllParams |->
        IF p[1] \notin PlanModules THEN flags[p]
        ELSE IF st.plan = "freeze"
             THEN IF st[p[1]].all_net THEN FALSE ELSE flags[p]
             ELSE IF p \in SliceFrom(p[1], st[p[1]].first_index)
                  THEN TRUE ELSE flags[p]]

NoOptimizer == [built |-> FALSE, stage |-> "none", params |-> {}]

\* 4.4 (a)-(d): on entry to a stage the flags are set and a fresh optimizer
\* is built over exactly the stage's 'params'.
EnterStage ==
    /\ pc = "enter"
    /\ requires_grad' = apply_plan(default_frozen(requires_grad), StageAt(stage))
    /\ optimizer' = [built |-> TRUE, stage |-> StageAt(stage).name,
                     params |-> StageAt(stage).params]
    /\ updated' = {}
    /\ epoch' = 0
    /\ n_batch' = 0
    /\ pc' = "first_step"
    /\ UNCHANGED <<stage, total_epochs, dataset_vars, clip_vars>>

\* 4.5: one batch is a forward and backward pass and the optimizer's
\* first_step, then a second pass and its second_step, which updates the
\* optimizer's parameters that carry a gradient.
FirstStep ==
    /\ pc = "first_step"
    /\ n_batch < NumBatches
    /\ pc' = "second_step"
    /\ UNCHANGED <<stage, epoch, total_epochs, n_batch, requires_grad,
                   optimizer, updated, dataset_vars, clip_vars>>

SecondStep ==
    /\ pc = "second_step"
    /\ updated' = { p \in optimizer.params : requires_grad[p] }
    /\ n_batch' = n_batch + 1
    /\ pc' = "first_step"
    /\ UNCHANGED <<stage, epoch, total_epochs, requires_grad, optimizer,
                   dataset_vars, clip_vars>>

\* 4.5: after the pass over the training loader the epoch is validated.
Validate ==
    /\ pc = "first_step"
    /\ n_batch = NumBatches
    /\ epoch' = epoch + 1
    /\ total_epochs' = total_epochs + 1
    /\ n_batch' = 0
    /\ pc' = IF epoch + 1 = StageAt(stage).n_epoch THEN "advance"
             ELSE "first_step"
    /\ UNCHANGED <<stage, requires_grad, optimizer, updated, dataset_vars,
                   clip_vars>>

\* 4.4: once the stage's epochs are run the next stage is entered; after the
\* last stage training is done.
Advance ==
    /\ pc = "advance"
    /\ IF stage + 1 < NumStages
       THEN stage' = stage + 1 /\ pc' = "enter"
       ELSE stage' = stage /\ pc' = "done"
    /\ UNCHANGED <<epoch, total_epochs, n_batch, requires_grad, optimizer,
                   updated, dataset_vars, clip_vars>>

\* Before training every nn.Parameter has requires_grad = True.
Init ==
    /\ pc = "enter"
    /\ stage = 0
    /\ epoch = 0
    /\ total_epochs = 0
    /\ n_batch = 0
    /\ requires_grad = [p \in AllParams |-> TRUE]
    /\ optimizer = NoOptimizer
    /\ updated = {}
    /\ DatasetIdle
    /\ ClipIdle

Next == EnterStage \/ FirstStep \/ SecondStep \/ Validate \/ Advance

Spec == Init /\ [][Next]_vars

\* -------------------------------------------- claims on the stage plan

\* C6: the stage index starts at 0 and only ever increases, by one and only
\* when the stage has run exactly its n_epoch epochs (5, 10, 15); training
\* stops after 30 epochs in all and never runs more; and the parameter set
\* of the optimizer changes exactly on the stage entries at the epoch
\* boundaries 5 and 15.
C6_StagePlan ==
    /\ stage = 0 /\ total_epochs = 0
    /\ [][ /\ stage' >= stage
           /\ stage' # stage =>
                 /\ stage' = stage + 1
                 /\ epoch = <<5, 10, 15>>[stage + 1]
           /\ total_epochs' <= 30
           /\ pc' = "done" => total_epochs' = 30 /\ stage' = 2
           /\ (optimizer.built /\ optimizer'.params # optimizer.params)
                 => total_epochs \in {5, 15}
           /\ (pc = "enter" /\ total_epochs \in {5, 15})
                 => (optimizer.built /\ optimizer'.params # optimizer.params)
           /\ (pc = "enter" /\ ~optimizer.built) => total_epochs = 0
         ]_vars

\* training is done, in Stage 3, after 30 epochs
C6_Witness ==
    /\ pc = "done"
    /\ stage = 2
    /\ total_epochs = 30
    /\ optimizer.stage = "Stage 3"

\* C10: in every stage, none of which freezes the logit scale, the logit
\* scale is trainable and belongs to the parameter set handed to the stage's
\* optimizer.
C10_LogitScaleTrained ==
    optimizer.built =>
        /\ requires_grad[LogitScale]
        /\ LogitScale \in optimizer.params

\* The parameters that are trainable, and those of them in one submodule.
Trainable == { p \in AllParams : requires_grad[p] }

In(params, module) == { p \in params : p[1] = module }

\* C12: over the ordered stages the parameter sets only grow: the params of
\* each configured stage are a subset of the params of the next (the two
\* projections alone in Stage 1, with the last 70 image and last 50 text
\* backbone parameters in Stage 2, with the last 120 and last 90 in
\* Stage 3), and on entry to a later stage neither the optimizer's set nor
\* the set of trainable parameters loses a member.
C12_StagesOnlyGrow ==
    /\ [](\A k \in 0..(NumStages - 2) :
             StageAt(k).params \subseteq StageAt(k + 1).params)
    /\ [](optimizer.built =>
             /\ parameters("matrix_normalize_img_emb") \subseteq optimizer.params
             /\ parameters("matrix_normalize_text_emb") \subseteq optimizer.params
             /\ Cardinality(In(optimizer.params, "model_img_emb"))
                    = (CASE optimizer.stage = "Stage 1" -> 0
                         [] optimizer.stage = "Stage 2" -> 70
                         [] optimizer.stage = "Stage 3" -> 120)
             /\ Cardinality(In(optimizer.params, "model_text_emb"))
                    = (CASE optimizer.stage = "Stage 1" -> 0
                         [] optimizer.stage = "Stage 2" -> 50
                         [] optimizer.stage = "Stage 3" -> 90)
             /\ In(Trainable, "model_img_emb")
                    = In(optimizer.params, "model_img_emb")
             /\ In(Trainable, "model_text_emb")
                    = In(optimizer.params, "model_text_emb"))
    /\ [][ (pc = "enter" /\ optimizer.built) =>
               /\ optimizer.params \subseteq optimizer'.params
               /\ optimizer.params # optimizer'.params
               /\ Trainable \subseteq Trainable'
               /\ Trainable # Trainable'
         ]_vars

\* Stage 3 is entered: the last backbone parameter, trainable since Stage 2,
\* is still trainable, and the 120th from the end has become so.
C12_Witness ==
    /\ optimizer.built
    /\ optimizer.stage = "Stage 3"
    /\ stage = 2
    /\ requires_grad[<<"model_img_emb", NumImgParams>>]
    /\ requires_grad[<<"model_img_emb", NumImgParams - 119>>]
    /\ ~requires_grad[<<"model_img_emb", NumImgParams - 120>>]
    /\ <<"model_text_emb", NumTextParams - 89>> \in optimizer.params

=============================================================================
